---------------------------- MODULE Spec2Model ----------------------------
(***************************************************************************)
(* Model of src/description.ts: the description markup language.           *)
(*                                                                         *)
(* A text is a sequence of one-character strings.  Every function of the   *)
(* source is an operator computed the way the source computes it; a        *)
(* function that may throw returns a record [ok, err, val].                *)
(***************************************************************************)
EXTENDS Integers, Sequences, FiniteSets, TLC

VARIABLES
    pc,      \* position of the caller: which operation was applied last
    input,   \* the text handed to the TextSpan constructor or to parseDescription
    span,    \* outcome of new TextSpan(input)
    line,    \* the line handed to parseInlineElementes
    scan,    \* the locals of parseInlineElementes: i, commandType, text, elements
    tree,    \* a node built with the constructors (CommandSpan, List)
    out,     \* the text returned by tree.toString()
    doc,     \* outcome of parseDescription(input)
    canon,   \* doc.toString()
    doc2,    \* outcome of parseDescription(canon)
    canon2,  \* doc2.toString()
    walk,    \* the block parser in its walk: chunk, line, the locals of the callbacks
    catalog, \* CommandSpan.Type._values, the static array of the catalog
    found    \* the value returned by the last catalog lookup

vars == <<pc, input, span, line, scan, tree, out, doc, canon, doc2, canon2, walk, catalog, found>>

-----------------------------------------------------------------------------
(* Bounds of the checked instances.                                        *)

MaxTextLen == 5
MaxLineLen == 5
MaxContentLen == 3
MaxItems == 2
MaxPieces == 3
MaxBreaks == 4
MaxTokenLen == 3

-----------------------------------------------------------------------------
(* Characters and texts.                                                   *)

SP == " "
TAB == "\t"
LF == "\n"
LB == "{"
RB == "}"
BS == "\\"

\* the characters /\s/ matches; space, tab and line break stand for the class
IsWhitespace(c) == c \in {SP, TAB, LF}

\* all texts over alphabet A of length at most n
Texts(A, n) == UNION {[1..k -> A] : k \in 0..n}

\* String.prototype.startsWith
startsWith(s, p) == Len(s) >= Len(p) /\ SubSeq(s, 1, Len(p)) = p

\* String.prototype.substring(n)
substring(s, n) == SubSeq(s, n + 1, Len(s))

\* String.prototype.includes
includes(s, p) == \E i \in 1..(Len(s) - Len(p) + 1) : SubSeq(s, i, i + Len(p) - 1) = p

\* String.prototype.trim
RECURSIVE trimStart(_)
trimStart(s) ==
    IF s # <<>> /\ IsWhitespace(Head(s)) THEN trimStart(Tail(s)) ELSE s

RECURSIVE trimEnd(_)
trimEnd(s) ==
    IF s # <<>> /\ IsWhitespace(s[Len(s)]) THEN trimEnd(SubSeq(s, 1, Len(s) - 1)) ELSE s

trim(s) == trimEnd(trimStart(s))

\* Array.prototype.join("") over texts
RECURSIVE Concat(_)
Concat(ss) == IF ss = <<>> THEN <<>> ELSE Head(ss) \o Concat(Tail(ss))

-----------------------------------------------------------------------------
(* Exceptions: the messages of the four throw statements.                  *)

NoError == [kind |-> "none", token |-> <<>>]
MultipleLineBreaks == [kind |-> "Text may not contain multiple line breaks in sequence", token |-> <<>>]
BracesWithoutCommand == [kind |-> "Braces without command", token |-> <<>>]
UnknownCommand(commandStr) == [kind |-> "Unknown command", token |-> commandStr]
UnclosedCommand == [kind |-> "Unclosed command", token |-> <<>>]

Return(v) == [ok |-> TRUE, err |-> NoError, val |-> v]
Throw(e) == [ok |-> FALSE, err |-> e, val |-> <<>>]

-----------------------------------------------------------------------------
(* TextSpan.                                                               *)

\* the end (exclusive) of the whitespace run of s that starts at i
RECURSIVE RunEnd(_, _)
RunEnd(s, i) == IF i <= Len(s) /\ IsWhitespace(s[i]) THEN RunEnd(s, i + 1) ELSE i

\* text.replace(/\s+/g, (substring) => substring[0]), scanning from index i
RECURSIVE CompressFrom(_, _)
CompressFrom(s, i) ==
    IF i > Len(s) THEN <<>>
    ELSE IF IsWhitespace(s[i]) THEN <<s[i]>> \o CompressFrom(s, RunEnd(s, i))
    ELSE <<s[i]>> \o CompressFrom(s, i + 1)

\* mutant: every whitespace run becomes one space
RECURSIVE CompressToSpace(_)
CompressToSpace(s) ==
    IF s = <<>> THEN <<>>
    ELSE IF IsWhitespace(Head(s))
         THEN <<SP>> \o CompressToSpace(SubSeq(s, RunEnd(s, 1), Len(s)))
         ELSE <<Head(s)>> \o CompressToSpace(Tail(s))

compressWhitespace(s) == CompressFrom(s, 1)

\* mutant: the constructor without its line-break check
TextSpanUnchecked(text) == Return(compressWhitespace(text))

\* new TextSpan(text): Return(the stored text) or Throw
TextSpan(text) ==
    IF includes(text, <<LF, LF>>) THEN Throw(MultipleLineBreaks)
    ELSE Return(compressWhitespace(text))

-----------------------------------------------------------------------------
(* CommandSpan.Type: the catalog, in definition order.                     *)

Type(ordinal, name, commands) == [ordinal |-> ordinal, name |-> name, commands |-> commands]

\* the entries the static initialisers push to Type._values, in their order
values ==
    << Type(0, "EMPHASIS", << <<"e">> >>),
       Type(1, "STRONG_EMPHASIS", << <<"s">> >>),
       Type(2, "PROPER_NAME", << <<"p">> >>),
       Type(3, "CODE", << <<"c">> >>),
       Type(4, "MESSAGE", << <<"m">> >>),
       Type(5, "MESSAGE_PLACEHOLDER", << <<"m", "p">> >>),
       Type(6, "CURLY_BRACE_OPEN", << <<"c", "b">>, <<"c", "b", "o">> >>),
       Type(7, "CURLY_BRACE_CLOSED", << <<"c", "b", "c">> >>) >>

TypeNames == {values[k].name : k \in 1..Len(values)}

\* Array.prototype.includes
arrayIncludes(arr, x) == \E k \in 1..Len(arr) : arr[k] = x

\* mutant: only the first alias of an entry is compared
RECURSIVE fromCommandFirst(_, _)
fromCommandFirst(command, k) ==
    IF k > Len(catalog) THEN "null"
    ELSE IF catalog[k].commands[1] = command THEN catalog[k].name
    ELSE fromCommandFirst(command, k + 1)

\* the for-of loop of fromCommand over Type._values, from position k on
RECURSIVE fromCommandAt(_, _)
fromCommandAt(command, k) ==
    IF k > Len(catalog) THEN "null"
    ELSE IF arrayIncludes(catalog[k].commands, command) THEN catalog[k].name
    ELSE fromCommandAt(command, k + 1)

\* the for-of loop of from over Type._values, from position k on
RECURSIVE fromAt(_, _)
fromAt(name, k) ==
    IF k > Len(catalog) THEN "null"
    ELSE IF catalog[k].name = name THEN catalog[k].name
    ELSE fromAt(name, k + 1)

\* Type.from: the name of the first entry with that name, or "null"
from(name) == fromAt(name, 1)

\* Type.fromCommand: the name of the first entry with that alias, or "null"
fromCommand(command) == fromCommandAt(command, 1)

\* type.getCommands()
getCommands(type) == values[CHOOSE k \in 1..Len(values) : values[k].name = type].commands

-----------------------------------------------------------------------------
(* Inline elements and their serialization.                                *)

\* a TextSpan object holding the (already normalised) text
TextSpanOf(text) == [kind |-> "TextSpan", type |-> "null", text |-> text]

\* new CommandSpan(type, textSpan), textSpan.text = text
CommandSpan(type, text) == [kind |-> "CommandSpan", type |-> type, text |-> text]

\* mutant: every '\', '{' and '}' of the content is escaped
RECURSIVE escapeAll(_)
escapeAll(text) ==
    IF text = <<>> THEN <<>>
    ELSE (IF Head(text) \in {BS, LB, RB} THEN <<BS, Head(text)>> ELSE <<Head(text)>>)
         \o escapeAll(Tail(text))

\* text.replace(/^[\\{}]$/g, (substring) => `\\${substring}`)
escapeText(text) ==
    IF Len(text) = 1 /\ text[1] \in {BS, LB, RB} THEN <<BS>> \o text ELSE text

\* CommandSpan.toString
CommandSpan_toString(cs) ==
    LET str == <<LB>> \o getCommands(cs.type)[1]
        escapedText == escapeText(cs.text)
    IN  (IF escapedText # <<>> THEN str \o <<SP>> \o escapedText ELSE str) \o <<RB>>

\* element.toString(), as Array.prototype.join calls it
Element_toString(e) == IF e.kind = "TextSpan" THEN e.text ELSE CommandSpan_toString(e)

\* elements.join("")
joinElements(elements) ==
    Concat([k \in 1..Len(elements) |-> Element_toString(elements[k])])

-----------------------------------------------------------------------------
(* parseInlineElementes: the scanner of one line.                          *)
(* A value computed once and used several times is handed to a helper      *)
(* operator as an argument.                                                *)

\* the locals of parseInlineElementes before the loop; i counts from 0
ScanInit == [i |-> 0, commandType |-> "null", text |-> <<>>, elements |-> <<>>, err |-> NoError]

\* elements.push(ts); text = "", or the exception of the constructor
PushSpan(st, ts) ==
    IF ts.ok THEN [st EXCEPT !.elements = Append(@, TextSpanOf(ts.val)), !.text = <<>>]
    ELSE [st EXCEPT !.err = ts.err]

\* pushTextSpan(): the pending text becomes a TextSpan element
pushTextSpan(st) == IF st.text # <<>> THEN PushSpan(st, TextSpan(st.text)) ELSE st

\* mutant: the command token runs up to whitespace only
RECURSIVE TokenEndAtSpace(_, _)
TokenEndAtSpace(str, i) ==
    IF i < Len(str) /\ ~IsWhitespace(str[i + 1])
    THEN TokenEndAtSpace(str, i + 1) ELSE i

\* the loop that reads commandStr: the index at which it stops
RECURSIVE TokenEnd(_, _)
TokenEnd(str, i) ==
    IF i < Len(str) /\ ~IsWhitespace(str[i + 1]) /\ str[i + 1] # RB
    THEN TokenEnd(str, i + 1) ELSE i

\* mutant: the whitespace after the token is not skipped
SkipNothing(str, i) == i

\* the "skip whitespace" loop: the index at which it stops
RECURSIVE SkipWhitespace(_, _)
SkipWhitespace(str, i) ==
    IF i < Len(str) /\ IsWhitespace(str[i + 1]) THEN SkipWhitespace(str, i + 1) ELSE i

\* the checks on commandStr, read up to index j, and the move into the command
EnterCommand(pushed, commandStr, k, type) ==
    IF pushed.err # NoError THEN pushed
    ELSE IF commandStr = <<>> THEN [pushed EXCEPT !.err = BracesWithoutCommand]
    ELSE IF type = "null" THEN [pushed EXCEPT !.i = k, !.err = UnknownCommand(commandStr)]
    ELSE [pushed EXCEPT !.i = k, !.commandType = type]

\* commandStr, read up to index j, the whitespace skipped and the lookup
ReadCommand(str, pushed, j) ==
    EnterCommand(pushed, SubSeq(str, pushed.i + 2, j), SkipWhitespace(str, j),
                 fromCommand(SubSeq(str, pushed.i + 2, j)))

\* the branch taken outside a command at '{'
ScanOpen(str, st) == ReadCommand(str, pushTextSpan(st), TokenEnd(str, st.i + 1))

\* elements.push(new CommandSpan(commandType, ts)); commandType = null; text = ""; ++i
PushCommand(st, ts) ==
    IF ts.ok
    THEN [st EXCEPT !.elements = Append(@, CommandSpan(st.commandType, ts.val)),
                    !.commandType = "null", !.text = <<>>, !.i = @ + 1]
    ELSE [st EXCEPT !.err = ts.err]

\* the branch taken inside a command at '}'
ScanClose(str, st) == PushCommand(st, TextSpan(st.text))

\* the condition of the escape branch
IsEscape(str, st) ==
    /\ st.commandType # "null"
    /\ str[st.i + 1] = BS
    /\ st.i + 1 < Len(str)
    /\ str[st.i + 2] \in {BS, LB, RB}

\* mutant: an escape keeps its backslash
ScanEscapeKeep(str, st) == [st EXCEPT !.text = @ \o <<BS, str[st.i + 2]>>, !.i = @ + 2]

\* the escape branch
ScanEscape(str, st) == [st EXCEPT !.text = Append(@, str[st.i + 2]), !.i = @ + 2]

\* text += c; ++i
ScanChar(str, st) == [st EXCEPT !.text = Append(@, str[st.i + 1]), !.i = @ + 1]

\* one iteration of the for loop, st.i < str.length
ScanStep(str, st) ==
    IF st.commandType = "null" /\ str[st.i + 1] = LB THEN ScanOpen(str, st)
    ELSE IF st.commandType # "null" /\ str[st.i + 1] = RB THEN ScanClose(str, st)
    ELSE IF IsEscape(str, st) THEN ScanEscape(str, st)
    ELSE ScanChar(str, st)

\* the for loop, until the end of the line or a throw
RECURSIVE ScanLoop(_, _)
ScanLoop(str, st) ==
    IF st.err = NoError /\ st.i < Len(str) THEN ScanLoop(str, ScanStep(str, st)) ELSE st

\* mutant: the end of the line closes an open command silently
ScanFinishLenient(st) == pushTextSpan(st)

\* after the loop: the unclosed-command check and the last pushTextSpan
ScanFinish(st) ==
    IF st.commandType # "null" THEN [st EXCEPT !.err = UnclosedCommand]
    ELSE pushTextSpan(st)

\* what is left of the function after the loop, unless the loop threw
ScanEnd(st) == IF st.err # NoError THEN st ELSE ScanFinish(st)

\* the outcome of the function: return elements, or the exception
ScanResult(st) == IF st.err = NoError THEN Return(st.elements) ELSE Throw(st.err)

\* parseInlineElementes(str): Return(elements) or Throw
parseInlineElementes(str) == ScanResult(ScanEnd(ScanLoop(str, ScanInit)))

-----------------------------------------------------------------------------
(* optimizeElements.                                                       *)

\* mutant: every element is pushed, nothing is merged
OptimizeElementPush(optimized, element, merged) == Return(Append(optimized, element))

\* what one call of the forEach callback does to optimizedElements, given the
\* merged span it may need; Throw if the merge threw
OptimizeElement(optimized, element, merged) ==
    IF optimized = <<>> THEN Return(<<element>>)
    ELSE IF element.kind = "TextSpan"
    THEN IF element.text # <<>>
         THEN IF optimized[Len(optimized)].kind = "TextSpan"
              THEN IF merged.ok
                   THEN Return([optimized EXCEPT ![Len(optimized)] = TextSpanOf(merged.val)])
                   ELSE Throw(merged.err)
              ELSE Return(Append(optimized, element))
         ELSE Return(optimized)
    ELSE Return(Append(optimized, element))

\* new TextSpan(lastOptimizedElement.text + element.text)
MergedSpan(optimized, element) ==
    IF optimized # <<>> /\ optimized[Len(optimized)].kind = "TextSpan" /\ element.kind = "TextSpan"
    THEN TextSpan(optimized[Len(optimized)].text \o element.text)
    ELSE Return(<<>>)

\* the forEach of optimizeElements from element k on; acc is optimizedElements so far
RECURSIVE optimizeFrom(_, _, _)
optimizeFrom(elements, k, acc) ==
    IF ~acc.ok \/ k > Len(elements) THEN acc
    ELSE optimizeFrom(elements, k + 1,
            OptimizeElement(acc.val, elements[k], MergedSpan(acc.val, elements[k])))

\* optimizeElements(elements): Return(optimizedElements) or Throw
optimizeElements(elements) == optimizeFrom(elements, 1, Return(<<>>))

\* the item optimised and appended, or the exception
AppendItem(done, o) == IF o.ok THEN Return(Append(done.val, o.val)) ELSE Throw(o.err)

\* listItems.map(optimizeElements) from item k on
RECURSIVE mapOptimize(_, _, _)
mapOptimize(items, k, done) ==
    IF ~done.ok \/ k > Len(items) THEN done
    ELSE mapOptimize(items, k + 1, AppendItem(done, optimizeElements(items[k])))

-----------------------------------------------------------------------------
(* Block elements and their serialization.                                 *)

Paragraph(elements) == [kind |-> "Paragraph", elements |-> elements, items |-> <<>>]
List(items) == [kind |-> "List", elements |-> <<>>, items |-> items]

\* Paragraph.toString
Paragraph_toString(p) == <<LF>> \o joinElements(p.elements) \o <<LF>>

\* s.replace(/\n/g, "\n  "), the replace with a g flag: every line break is indented
RECURSIVE indentAll(_)
indentAll(s) ==
    IF s = <<>> THEN <<>>
    ELSE (IF Head(s) = LF THEN <<LF, SP, SP>> ELSE <<Head(s)>>) \o indentAll(Tail(s))

\* s.replace(/\n/, "\n  "): the pattern has no g flag, the first match only
RECURSIVE indentFirst(_)
indentFirst(s) ==
    IF s = <<>> THEN <<>>
    ELSE IF Head(s) = LF THEN <<LF, SP, SP>> \o Tail(s)
    ELSE <<Head(s)>> \o indentFirst(Tail(s))

\* the text List.toString appends for item i (counted from 1)
ItemText(items, i) ==
    (IF i = 1 THEN <<"*", SP>> ELSE <<LF, "*", SP>>) \o indentFirst(joinElements(items[i]))

\* List.toString
List_toString(l) ==
    <<LF>> \o Concat([i \in 1..Len(l.items) |-> ItemText(l.items, i)]) \o <<LF>>

\* block.toString(), as Array.prototype.join calls it
Block_toString(b) == IF b.kind = "Paragraph" THEN Paragraph_toString(b) ELSE List_toString(b)

\* Description.toString
Description_toString(blocks) ==
    trim(Concat([k \in 1..Len(blocks) |-> Block_toString(blocks[k])]))

-----------------------------------------------------------------------------
(* parseDescription.                                                       *)

\* the number of line breaks of s from position i on, up to the first other character
RECURSIVE BreakRun(_, _)
BreakRun(s, i) == IF i <= Len(s) /\ s[i] = LF THEN 1 + BreakRun(s, i + 1) ELSE 0

\* s.replace(/\n{3,}/g, "\n\n"), scanning from position i
RECURSIVE collapseBreaksFrom(_, _)
collapseBreaksFrom(s, i) ==
    IF i > Len(s) THEN <<>>
    ELSE IF BreakRun(s, i) >= 3 THEN <<LF, LF>> \o collapseBreaksFrom(s, i + BreakRun(s, i))
    ELSE <<s[i]>> \o collapseBreaksFrom(s, i + 1)

\* mutant: runs of line breaks are left as they are
trimOnly(str) == trim(str)

\* str.trim().replace(/\n{3,}/g, "\n\n")
preprocess(str) == collapseBreaksFrom(trim(str), 1)

\* the position of the first occurrence of sep in s
indexOf(s, sep) ==
    CHOOSE i \in 1..Len(s) :
        /\ SubSeq(s, i, i + Len(sep) - 1) = sep
        /\ \A j \in 1..(i - 1) : SubSeq(s, j, j + Len(sep) - 1) # sep

\* String.prototype.split(sep), sep a non-empty text
RECURSIVE split(_, _)
split(s, sep) ==
    IF ~includes(s, sep) THEN <<s>>
    ELSE <<SubSeq(s, 1, indexOf(s, sep) - 1)>>
         \o split(SubSeq(s, indexOf(s, sep) + Len(sep), Len(s)), sep)

\* a nullable local: null is <<>>, a value v is <<v>>
Null == <<>>
Some(v) == <<v>>

\* the locals of one chunk's callback (paragraphElements, listItems), the blocks
\* pushed so far and the exception thrown, if any
BlockInit(blocks) ==
    [paragraphElements |-> Null, listItems |-> Null, blocks |-> blocks, err |-> NoError]

\* blocks.push(new Paragraph(o)); paragraphElements = null, or the exception
PushParagraph(st, o) ==
    IF o.ok THEN [st EXCEPT !.blocks = Append(@, Paragraph(o.val)), !.paragraphElements = Null]
    ELSE [st EXCEPT !.err = o.err]

\* pushParagraphElements(); an exception already thrown skips the call
pushParagraphElements(st) ==
    IF st.err = NoError /\ st.paragraphElements # Null
    THEN PushParagraph(st, optimizeElements(st.paragraphElements[1]))
    ELSE st

\* blocks.push(new List(o)); listItems = null, or the exception
PushList(st, o) ==
    IF o.ok THEN [st EXCEPT !.blocks = Append(@, List(o.val)), !.listItems = Null]
    ELSE [st EXCEPT !.err = o.err]

\* pushListItems(); an exception already thrown skips the call
pushListItems(st) ==
    IF st.err = NoError /\ st.listItems # Null
    THEN PushList(st, mapOptimize(st.listItems[1], 1, Return(<<>>)))
    ELSE st

\* listItems[listItems.length - 1].push(...elements)
pushToLastItem(items, elements) == [items EXCEPT ![Len(items)] = @ \o elements]

\* the line-break marker: the text of new TextSpan("\n")
Marker == TextSpanOf(<<LF>>)

\* mutant: an open list gets no new item
WithLastItem(st) == IF st.listItems = Null THEN << <<>> >> ELSE st.listItems[1]

\* listItems, or [] if it is null, after listItems.push([])
WithNewItem(st) == (IF st.listItems = Null THEN <<>> ELSE st.listItems[1]) \o << <<>> >>

\* the new item and the elements of the line pushed to it, or the exception
PushItemLine(flushed, parsed) ==
    IF flushed.err # NoError THEN flushed
    ELSE IF ~parsed.ok THEN [flushed EXCEPT !.listItems = Some(WithNewItem(flushed)), !.err = parsed.err]
    ELSE [flushed EXCEPT !.listItems = Some(pushToLastItem(WithNewItem(flushed), parsed.val))]

\* the branch for a line that starts with "* "
ItemLine(st, ln) ==
    PushItemLine(pushParagraphElements(st), parseInlineElementes(substring(ln, 2)))

\* the last item, after the marker if the line calls for one
WithItemMarker(items, ln) ==
    IF Len(items[Len(items)]) > 0 /\ ~startsWith(ln, <<SP, SP, SP>>)
    THEN pushToLastItem(items, <<Marker>>) ELSE items

\* the marker and the elements of the line pushed to the last item, or the exception
PushContinuationLine(st, ln, parsed) ==
    IF ~parsed.ok THEN [st EXCEPT !.listItems = Some(WithItemMarker(st.listItems[1], ln)), !.err = parsed.err]
    ELSE [st EXCEPT !.listItems = Some(pushToLastItem(WithItemMarker(st.listItems[1], ln), parsed.val))]

\* the branch for a line that starts with two spaces while a list is open
ContinuationLine(st, ln) ==
    PushContinuationLine(st, ln, parseInlineElementes(substring(ln, 2)))

\* paragraphElements, or [] if it is null, after the marker if the line calls for one
WithParagraphMarker(st, ln) ==
    LET elements == IF st.paragraphElements = Null THEN <<>> ELSE st.paragraphElements[1]
    IN  IF Len(elements) > 0 /\ ~startsWith(ln, <<SP>>) THEN Append(elements, Marker) ELSE elements

\* the marker and the elements of the line pushed to the paragraph, or the exception
PushParagraphLine(flushed, ln, parsed) ==
    IF flushed.err # NoError THEN flushed
    ELSE IF ~parsed.ok
    THEN [flushed EXCEPT !.paragraphElements = Some(WithParagraphMarker(flushed, ln)), !.err = parsed.err]
    ELSE [flushed EXCEPT !.paragraphElements = Some(WithParagraphMarker(flushed, ln) \o parsed.val)]

\* mutant: a paragraph line leaves an open list open
ParagraphLineKeepList(st, ln) == PushParagraphLine(st, ln, parseInlineElementes(ln))

\* the branch for every other line
ParagraphLine(st, ln) == PushParagraphLine(pushListItems(st), ln, parseInlineElementes(ln))

\* the callback of block.split("\n").forEach
LineStep(st, ln) ==
    IF startsWith(ln, <<"*", SP>>) THEN ItemLine(st, ln)
    ELSE IF st.listItems # Null /\ startsWith(ln, <<SP, SP>>) THEN ContinuationLine(st, ln)
    ELSE ParagraphLine(st, ln)

\* mutant: the exception of a line is swallowed and the walk goes on
RECURSIVE LinesFromResume(_, _, _)
LinesFromResume(st, lines, k) ==
    IF k > Len(lines) THEN st
    ELSE LinesFromResume(LineStep([st EXCEPT !.err = NoError], lines[k]), lines, k + 1)

\* block.split("\n").forEach from line k on, until a throw
RECURSIVE LinesFrom(_, _, _)
LinesFrom(st, lines, k) ==
    IF st.err # NoError \/ k > Len(lines) THEN st
    ELSE LinesFrom(LineStep(st, lines[k]), lines, k + 1)

\* the two pushes that end the callback of a chunk
BlockEnd(st) == pushListItems(pushParagraphElements(st))

\* the callback of str.split("\n\n").forEach for one chunk
BlockStep(blocks, block) == BlockEnd(LinesFrom(BlockInit(blocks), split(block, <<LF>>), 1))

\* str.split("\n\n").forEach from chunk k on, until a throw
RECURSIVE BlocksFrom(_, _, _)
BlocksFrom(st, chunks, k) ==
    IF st.err # NoError \/ k > Len(chunks) THEN st
    ELSE BlocksFrom(BlockStep(st.blocks, chunks[k]), chunks, k + 1)

\* the outcome of parseDescription: new Description(blocks), or the exception
DescriptionOf(st) == IF st.err = NoError THEN Return(st.blocks) ELSE Throw(st.err)

\* parseDescription(str): Return(the blocks of the Description) or Throw
parseDescription(str) ==
    DescriptionOf(BlocksFrom(BlockInit(<<>>), split(preprocess(str), <<LF, LF>>), 1))

-----------------------------------------------------------------------------
(* Initial values of the variables an instance does not use.               *)

NoSpan == [ok |-> FALSE, err |-> NoError, val |-> <<>>]
NoScan == [i |-> 0, commandType |-> "null", text |-> <<>>, elements |-> <<>>, err |-> NoError]
NoTree == [kind |-> "none"]
NoDoc == [ok |-> FALSE, err |-> NoError, val |-> <<>>]
NoWalk == [c |-> 0, l |-> 0, st |-> BlockInit(<<>>)]
NoFound == [called |-> "none", name |-> "", command |-> <<>>, val |-> "null"]

-----------------------------------------------------------------------------
(* Instance 1: programmatic construction of a TextSpan.                    *)

TextAlphabet == {"a", "b", SP, TAB, LF}
ExampleSpaces == <<"a", SP, SP, SP, "b", TAB, "c">>
ExampleTabs == <<"a", TAB, TAB, "b">>
ExampleBreaks == <<"x", "1", LF, LF, "x", "2">>
TextInputs == Texts(TextAlphabet, MaxTextLen) \cup {ExampleSpaces, ExampleTabs, ExampleBreaks}

InitText ==
    /\ pc = "start"
    /\ input \in TextInputs
    /\ span = NoSpan
    /\ line = <<>>
    /\ scan = NoScan
    /\ tree = NoTree
    /\ out = <<>>
    /\ doc = NoDoc
    /\ canon = <<>>
    /\ doc2 = NoDoc
    /\ canon2 = <<>>
    /\ walk = NoWalk
    /\ catalog = values
    /\ found = NoFound

NewTextSpan ==
    /\ pc = "start"
    /\ span' = TextSpan(input)
    /\ pc' = "constructed"
    /\ UNCHANGED <<input, line, scan, tree, out, doc, canon, doc2, canon2, walk, catalog, found>>

NextText == NewTextSpan

SpecText == InitText /\ [][NextText]_vars

-----------------------------------------------------------------------------
(* Claims about the TextSpan constructor (instance 1).                     *)

\* the characters of s[1..n] that do not follow a whitespace character
RECURSIVE RunHeads(_, _)
RunHeads(s, n) ==
    IF n = 0 THEN <<>>
    ELSE IF n > 1 /\ IsWhitespace(s[n]) /\ IsWhitespace(s[n - 1]) THEN RunHeads(s, n - 1)
    ELSE Append(RunHeads(s, n - 1), s[n])

NoAdjacentWhitespace(s) ==
    \A k \in 1..(Len(s) - 1) : ~(IsWhitespace(s[k]) /\ IsWhitespace(s[k + 1]))

\* C6: for an input without two consecutive line breaks the constructor stores
\* the input with every maximal whitespace run replaced by the run's first
\* character, all other characters unchanged and in order; the stored text has
\* no two adjacent whitespace characters.
C6_CollapseToFirst ==
    (pc = "constructed" /\ ~includes(input, <<LF, LF>>)) =>
        /\ span.ok
        /\ span.val = RunHeads(input, Len(input))
        /\ NoAdjacentWhitespace(span.val)

C6_Witness ==
    /\ pc = "constructed"
    /\ input = <<"a", TAB, SP, LF, "b">>
    /\ span.val = <<"a", TAB, "b">>

\* C7 as stated: "a   b\tc" is stored as "a b c" and "a\t\tb" as "a\tb".
C7_AsStated ==
    pc = "constructed" =>
        /\ input = ExampleSpaces => (span.ok /\ span.val = <<"a", SP, "b", SP, "c">>)
        /\ input = ExampleTabs => (span.ok /\ span.val = <<"a", TAB, "b">>)

\* C7, amended: "a   b\tc" is stored as a, space, b, tab, c (the one-character
\* tab run stays a tab) and "a\t\tb" as a, tab, b.
C7_Examples ==
    pc = "constructed" =>
        /\ input = ExampleSpaces => (span.ok /\ span.val = <<"a", SP, "b", TAB, "c">>)
        /\ input = ExampleTabs => (span.ok /\ span.val = <<"a", TAB, "b">>)

C7_Witness == pc = "constructed" /\ input = ExampleSpaces /\ span.ok /\ Len(span.val) = 5

-----------------------------------------------------------------------------
(* Instance 2: the scanner, one loop iteration per step.                   *)

LineAlphabet == {LB, RB, BS, SP, "c", "z"}
ScenarioA == <<"H", "e", "l", "l", "o", SP, LB, "e", SP, "w", "o", "r", "l", "d", RB, ".">>
ScenarioB == <<LB, "z", "z", "z", SP, "t", "e", "x", "t", RB>>
ScenarioE == <<LB, "p", SP, RB>>
ScanLines == Texts(LineAlphabet, MaxLineLen) \cup {ScenarioA, ScenarioB, ScenarioE}

InitScan ==
    /\ pc = "scanning"
    /\ line \in ScanLines
    /\ scan = ScanInit
    /\ input = <<>>
    /\ span = NoSpan
    /\ tree = NoTree
    /\ out = <<>>
    /\ doc = NoDoc
    /\ canon = <<>>
    /\ doc2 = NoDoc
    /\ canon2 = <<>>
    /\ walk = NoWalk
    /\ catalog = values
    /\ found = NoFound

\* the scanner moves to st: it goes on, or the exception leaves the function
ScanTo(st) ==
    /\ scan' = st
    /\ pc' = IF st.err = NoError THEN "scanning" ELSE "thrown"
    /\ UNCHANGED <<input, span, line, tree, out, doc, canon, doc2, canon2, walk, catalog, found>>

InLoop == pc = "scanning" /\ scan.i < Len(line)

OpenCommand ==
    /\ InLoop
    /\ scan.commandType = "null" /\ line[scan.i + 1] = LB
    /\ ScanTo(ScanStep(line, scan))

CloseCommand ==
    /\ InLoop
    /\ scan.commandType # "null" /\ line[scan.i + 1] = RB
    /\ ScanTo(ScanStep(line, scan))

EscapedChar ==
    /\ InLoop
    /\ IsEscape(line, scan)
    /\ ScanTo(ScanStep(line, scan))

PlainChar ==
    /\ InLoop
    /\ ~(scan.commandType = "null" /\ line[scan.i + 1] = LB)
    /\ ~(scan.commandType # "null" /\ line[scan.i + 1] = RB)
    /\ ~IsEscape(line, scan)
    /\ ScanTo(ScanStep(line, scan))

EndOfLine ==
    /\ pc = "scanning"
    /\ scan.i >= Len(line)
    /\ scan' = ScanFinish(scan)
    /\ pc' = IF scan'.err = NoError THEN "returned" ELSE "thrown"
    /\ UNCHANGED <<input, span, line, tree, out, doc, canon, doc2, canon2, walk, catalog, found>>

NextScan == OpenCommand \/ CloseCommand \/ EscapedChar \/ PlainChar \/ EndOfLine

SpecScan == InitScan /\ [][NextScan]_vars

-----------------------------------------------------------------------------
(* Claims about the scanner (instance 2).                                  *)

Aliases == {<<"e">>, <<"s">>, <<"p">>, <<"c">>, <<"m">>, <<"m", "p">>,
            <<"c", "b">>, <<"c", "b", "o">>, <<"c", "b", "c">>}

\* the characters of str after position p (counted from 1) up to the next
\* whitespace character, '}' or the end of the line
TokenAfter(str, p) ==
    LET stops == {q \in (p + 1)..Len(str) : IsWhitespace(str[q]) \/ str[q] = RB}
        stop == IF stops = {} THEN Len(str) + 1
                ELSE CHOOSE q \in stops : \A r \in stops : q <= r
    IN  SubSeq(str, p + 1, stop - 1)

\* C4: outside a command, a '{' followed by a non-empty token that is no alias
\* makes the scan fail with "Unknown command" carrying exactly that token,
\* whatever follows the token on the line.
C4_UnknownCommand ==
    [][ (/\ InLoop
         /\ scan.commandType = "null"
         /\ line[scan.i + 1] = LB
         /\ TokenAfter(line, scan.i + 1) # <<>>
         /\ TokenAfter(line, scan.i + 1) \notin Aliases)
        => (pc' = "thrown" /\ scan'.err = UnknownCommand(TokenAfter(line, scan.i + 1))) ]_vars

C4_Witness ==
    /\ pc = "thrown"
    /\ line = ScenarioB
    /\ scan.err = UnknownCommand(<<"z", "z", "z">>)

\* C5: a scan that reaches the end of the line inside a command fails with
\* "Unclosed command"; a scan that ends outside a command returns, never with
\* that error, and its pending text is the last element, a TextSpan.
C5_EndOfLine ==
    [][ /\ (pc = "scanning" /\ scan.i >= Len(line) /\ scan.commandType # "null")
            => (pc' = "thrown" /\ scan'.err = UnclosedCommand)
        /\ (pc = "scanning" /\ scan.i >= Len(line) /\ scan.commandType = "null")
            => /\ pc' = "returned" /\ scan'.err = NoError
               /\ scan.text = <<>> => scan'.elements = scan.elements
               /\ scan.text # <<>> =>
                    /\ Len(scan'.elements) = Len(scan.elements) + 1
                    /\ SubSeq(scan'.elements, 1, Len(scan.elements)) = scan.elements
                    /\ scan'.elements[Len(scan'.elements)].kind = "TextSpan"
                    /\ scan'.elements[Len(scan'.elements)].text = RunHeads(scan.text, Len(scan.text))
        /\ (scan'.err = UnclosedCommand /\ scan.err # UnclosedCommand)
            => (scan.i >= Len(line) /\ scan.commandType # "null") ]_vars

C5_Witness ==
    /\ pc = "thrown"
    /\ scan.err = UnclosedCommand
    /\ line = <<LB, "c", SP, "z">>

C5_WitnessPlain ==
    /\ pc = "returned"
    /\ line = <<LB, "c", RB, "z">>
    /\ scan.elements = <<CommandSpan("CODE", <<>>), TextSpanOf(<<"z">>)>>

\* the type of the catalog entry that lists alias a
TypeOfAlias(a) ==
    values[CHOOSE k \in 1..Len(values) : arrayIncludes(values[k].commands, a)].name

\* the ways to read str as P + '{' + a + W + C + '}' + S: p is the position of
\* the '{', a the alias, w the length of W and r the position of the '}'
Readings(str) ==
    {d \in [p : 1..Len(str), a : Aliases, w : 0..Len(str), r : 1..Len(str)] :
        /\ str[d.p] = LB
        /\ d.p + Len(d.a) + d.w < d.r
        /\ str[d.r] = RB
        /\ SubSeq(str, d.p + 1, d.p + Len(d.a)) = d.a
        /\ \A q \in 1..(d.p - 1) : str[q] # LB
        /\ \A q \in (d.r + 1)..Len(str) : str[q] # LB
        /\ \A q \in (d.p + Len(d.a) + 1)..(d.p + Len(d.a) + d.w) : IsWhitespace(str[q])
        /\ \A q \in (d.p + Len(d.a) + d.w + 1)..(d.r - 1) : str[q] \notin {LB, RB, BS}
        /\ d.p + Len(d.a) + d.w + 1 < d.r => ~IsWhitespace(str[d.p + Len(d.a) + d.w + 1])}

ReadingP(str, d) == SubSeq(str, 1, d.p - 1)
ReadingC(str, d) == SubSeq(str, d.p + Len(d.a) + d.w + 1, d.r - 1)
ReadingS(str, d) == SubSeq(str, d.r + 1, Len(str))

\* TextSpan(t), omitted when t is empty
SpanUnlessEmpty(t) == IF t = <<>> THEN <<>> ELSE <<TextSpanOf(TextSpan(t).val)>>

\* TextSpan(P), CommandSpan(type of a, TextSpan(C)), TextSpan(S)
ReadingElements(str, d) ==
    SpanUnlessEmpty(ReadingP(str, d))
        \o <<CommandSpan(TypeOfAlias(d.a), TextSpan(ReadingC(str, d)).val)>>
        \o SpanUnlessEmpty(ReadingS(str, d))

\* C11 as stated: a line that reads as P + '{' + a + W + C + '}' + S, W a
\* possibly empty whitespace run and C any content without '{', '}' and '\'
\* that does not start with whitespace, scans to TextSpan(P), CommandSpan(type
\* of a, TextSpan(C)), TextSpan(S).
C11_AsStated ==
    pc \in {"returned", "thrown"} =>
        \A d \in Readings(line) :
            pc = "returned" /\ scan.elements = ReadingElements(line, d)

\* C11: the same, for the readings in which whitespace separates the alias
\* from a non-empty content (W is non-empty or C is empty): the token the
\* scanner reads runs up to the first whitespace character or '}', so without
\* W the first characters of C belong to the token.
C11_CommandShape ==
    pc \in {"returned", "thrown"} =>
        \A d \in Readings(line) :
            (d.w > 0 \/ ReadingC(line, d) = <<>>) =>
                pc = "returned" /\ scan.elements = ReadingElements(line, d)

C11_Witness ==
    /\ pc = "returned"
    /\ line = ScenarioA
    /\ [p |-> 7, a |-> <<"e">>, w |-> 1, r |-> 15] \in Readings(line)
    /\ scan.elements = <<TextSpanOf(<<"H", "e", "l", "l", "o", SP>>),
                         CommandSpan("EMPHASIS", <<"w", "o", "r", "l", "d">>),
                         TextSpanOf(<<".">>)>>

\* the scanner stays in the command it is in, with the elements it has
StaysInCommand ==
    /\ pc' = "scanning"
    /\ scan'.commandType = scan.commandType
    /\ scan'.elements = scan.elements

\* C14: inside a command, a backslash followed by '\', '{' or '}' appends
\* the second character alone and advances by two; every other character but
\* an unescaped '}' (an unescaped '{', a backslash before any other character
\* or at the end of the line) is appended as it is and advances by one; in
\* both cases the command stays open.
C14_InCommand ==
    [][ (InLoop /\ scan.commandType # "null") =>
            IF /\ line[scan.i + 1] = BS
               /\ scan.i + 2 <= Len(line)
               /\ line[scan.i + 2] \in {BS, LB, RB}
            THEN /\ scan'.text = scan.text \o <<line[scan.i + 2]>>
                 /\ scan'.i = scan.i + 2
                 /\ StaysInCommand
            ELSE line[scan.i + 1] # RB =>
                 /\ scan'.text = scan.text \o <<line[scan.i + 1]>>
                 /\ scan'.i = scan.i + 1
                 /\ StaysInCommand ]_vars

\* after "{c \}": the '}' is content and the command is open
C14_Witness ==
    /\ pc = "scanning"
    /\ line = <<LB, "c", SP, BS, RB>>
    /\ scan.i = 5
    /\ scan.commandType = "CODE"
    /\ scan.text = <<RB>>

\* after "{c {\": an unescaped '{' and a backslash at the end of the line
C14_WitnessVerbatim ==
    /\ pc = "scanning"
    /\ line = <<LB, "c", SP, LB, BS>>
    /\ scan.i = 5
    /\ scan.commandType = "CODE"
    /\ scan.text = <<LB, BS>>

-----------------------------------------------------------------------------
(* Instance 3: parse, serialize, parse again, serialize again.             *)

Pieces ==
    { <<"a">>, <<"c">>, <<SP>>, <<TAB>>, <<LF>>, <<"*">>, <<LB>>, <<RB>>, <<BS>>,
      <<LB, "c", SP>>, <<LF, SP, SP>>, <<LF, "*", SP>>, <<LF, LF>> }

\* the texts made of at most n pieces
RECURSIVE PieceTexts(_)
PieceTexts(n) ==
    IF n = 0 THEN {<<>>}
    ELSE LET shorter == PieceTexts(n - 1)
         IN  shorter \cup {t \o p : t \in shorter, p \in Pieces}

ScenarioC == <<"*", SP, "i", "1", LF, "*", SP, "i", "2">>
ScenarioD == <<"a", LF, LF, LF, LF, "b">>
TrailingBackslash == <<LB, "c", SP, "a", BS, BS, RB>>
LeadingBrace == <<LB, "c", SP, BS, RB, "a", RB>>
ThreeLineItem == <<"*", SP, "a", LF, SP, SP, "b", LF, SP, SP, "c">>
BlankLines == <<"a", LF, TAB, LF, TAB, LF, LB>>
AroundCommand == <<"a", LF, "c", LB, "c", SP, "a", RB, "a", LF, "c">>
WhitespaceLine == <<"a", LF, TAB, LF, "c">>

ParseInputs ==
    PieceTexts(MaxPieces) \cup
    {ScenarioA, ScenarioB, ScenarioC, ScenarioD, ScenarioE, ExampleBreaks,
     TrailingBackslash, LeadingBrace, ThreeLineItem, BlankLines, AroundCommand,
     WhitespaceLine}

Init ==
    /\ pc = "start"
    /\ input \in ParseInputs
    /\ span = NoSpan
    /\ line = <<>>
    /\ scan = NoScan
    /\ tree = NoTree
    /\ out = <<>>
    /\ doc = NoDoc
    /\ canon = <<>>
    /\ doc2 = NoDoc
    /\ canon2 = <<>>
    /\ walk = NoWalk
    /\ catalog = values
    /\ found = NoFound

\* doc = parseDescription(input)
Parse ==
    /\ pc = "start"
    /\ doc' = parseDescription(input)
    /\ pc' = IF doc'.ok THEN "parsed" ELSE "failed"
    /\ UNCHANGED <<input, span, line, scan, tree, out, canon, doc2, canon2, walk, catalog, found>>

\* canon = doc.toString()
Serialize ==
    /\ pc = "parsed"
    /\ canon' = Description_toString(doc.val)
    /\ pc' = "serialized"
    /\ UNCHANGED <<input, span, line, scan, tree, out, doc, doc2, canon2, walk, catalog, found>>

\* doc2 = parseDescription(canon)
Reparse ==
    /\ pc = "serialized"
    /\ doc2' = parseDescription(canon)
    /\ pc' = IF doc2'.ok THEN "reparsed" ELSE "refailed"
    /\ UNCHANGED <<input, span, line, scan, tree, out, doc, canon, canon2, walk, catalog, found>>

\* canon2 = doc2.toString()
Reserialize ==
    /\ pc = "reparsed"
    /\ canon2' = Description_toString(doc2.val)
    /\ pc' = "reserialized"
    /\ UNCHANGED <<input, span, line, scan, tree, out, doc, canon, doc2, walk, catalog, found>>

\* new TextSpan(input), by a caller that builds nodes itself
Construct ==
    /\ pc = "start"
    /\ span' = TextSpan(input)
    /\ pc' = "constructed"
    /\ UNCHANGED <<input, line, scan, tree, out, doc, canon, doc2, canon2, walk, catalog, found>>

Next == Parse \/ Serialize \/ Reparse \/ Reserialize \/ Construct

Spec == Init /\ [][Next]_vars

-----------------------------------------------------------------------------
(* Claims about parsing and serializing (instance 3).                      *)

\* C1 as stated: the serialization of a parsed text parses again.
C1_ReparseSucceeds == pc \in {"reparsed", "refailed"} => doc2.ok

\* C2 as stated: when the serialization c of a parsed text parses again, the
\* serialization of that second parse is c.
C2_FixedPoint == pc = "reserialized" => canon2 = canon

\* the chunks of the preprocessed text and the lines of a chunk
ChunksOf(t) == split(preprocess(t), <<LF, LF>>)
LinesOf(chunk) == split(chunk, <<LF>>)

\* the exception, if any, of parsing a chunk cut after its line k
CutDefect(chunk, k) ==
    BlockEnd(LinesFrom(BlockInit(<<>>), SubSeq(LinesOf(chunk), 1, k), 1)).err

\* the defect of the shortest defective cut of a chunk
ChunkDefect(chunk) ==
    LET bad == {k \in 1..Len(LinesOf(chunk)) : CutDefect(chunk, k) # NoError}
    IN  IF bad = {} THEN NoError
        ELSE CutDefect(chunk, CHOOSE k \in bad : \A j \in bad : k <= j)

\* the earliest defect of a text, top to bottom: that of its first defective
\* chunk, cut after the first line at which the chunk is defective
EarliestDefect(t) ==
    LET bad == {c \in 1..Len(ChunksOf(t)) : ChunkDefect(ChunksOf(t)[c]) # NoError}
    IN  IF bad = {} THEN NoError
        ELSE ChunkDefect(ChunksOf(t)[CHOOSE c \in bad : \A d \in bad : c <= d])

\* all lines of a text, top to bottom
AllLines(t) == Concat([c \in 1..Len(ChunksOf(t)) |-> LinesOf(ChunksOf(t)[c])])

\* the scanner's error on the first line that has one
FirstScanDefect(t) ==
    LET bad == {k \in 1..Len(AllLines(t)) : ~parseInlineElementes(AllLines(t)[k]).ok}
    IN  IF bad = {} THEN NoError
        ELSE parseInlineElementes(AllLines(t)[CHOOSE k \in bad : \A j \in bad : k <= j]).err

C3_WitnessBreaks ==
    /\ pc = "failed"
    /\ input = BlankLines
    /\ EarliestDefect(input) = MultipleLineBreaks
    /\ doc.err = BracesWithoutCommand

\* the texts of all TextSpans of a tree, command contents included
TextsOfElements(elements) == {elements[k].text : k \in 1..Len(elements)}
TextsOfBlock(b) ==
    TextsOfElements(b.elements) \cup
    UNION {TextsOfElements(b.items[i]) : i \in 1..Len(b.items)}
TextsOfBlocks(blocks) == UNION {TextsOfBlock(blocks[k]) : k \in 1..Len(blocks)}

\* C8: the constructor fails, with "multiple line breaks", exactly when its
\* input holds two consecutive line breaks, and no TextSpan of a parsed tree
\* holds two consecutive line breaks.
C8_NoDoubleBreak ==
    /\ pc = "constructed" =>
          /\ span.ok <=> ~(\E k \in 1..(Len(input) - 1) : input[k] = LF /\ input[k + 1] = LF)
          /\ ~span.ok => span.err = MultipleLineBreaks
          /\ span.ok => ~includes(span.val, <<LF, LF>>)
    /\ \A t \in TextsOfBlocks(doc.val) \cup TextsOfBlocks(doc2.val) : ~includes(t, <<LF, LF>>)

C8_Witness ==
    /\ pc = "constructed"
    /\ input = ExampleBreaks
    /\ ~span.ok
    /\ span.err = MultipleLineBreaks

\* the lines of the preprocessed input that begin with "* "
ItemLines(t) == {k \in 1..Len(AllLines(t)) : startsWith(AllLines(t)[k], <<"*", SP>>)}

\* the number of items of the Lists among blocks[1..k]
RECURSIVE CountItems(_, _)
CountItems(blocks, k) ==
    IF k = 0 THEN 0
    ELSE CountItems(blocks, k - 1)
         + (IF blocks[k].kind = "List" THEN Len(blocks[k].items) ELSE 0)

\* every line of the input begins with "* " and the input is one chunk
OnlyItemLines(t) ==
    /\ Len(ChunksOf(t)) = 1
    /\ ItemLines(t) = 1..Len(AllLines(t))

\* the content of the item a line "* ..." opens
ItemOfLine(ln) == optimizeElements(parseInlineElementes(substring(ln, 2)).val).val

\* C12: the Document has as many list items as the preprocessed input has
\* lines beginning with "* ", and a chunk made only of n such lines parses to
\* a single List whose n items are the contents of the lines, in line order.
C12_ItemPerLine ==
    pc = "parsed" =>
        /\ CountItems(doc.val, Len(doc.val)) = Cardinality(ItemLines(input))
        /\ OnlyItemLines(input) =>
            /\ Len(doc.val) = 1
            /\ doc.val[1].kind = "List"
            /\ Len(doc.val[1].items) = Len(AllLines(input))
            /\ \A k \in 1..Len(AllLines(input)) :
                    doc.val[1].items[k] = ItemOfLine(AllLines(input)[k])

C12_Witness ==
    /\ pc = "parsed"
    /\ input = ScenarioC
    /\ OnlyItemLines(input)
    /\ doc.val = <<List(<< <<TextSpanOf(<<"i", "1">>)>>, <<TextSpanOf(<<"i", "2">>)>> >>)>>

\* an item line that closes the open Paragraph
C12_WitnessMixed ==
    /\ pc = "parsed"
    /\ input = <<"a", LF, "*", SP, "c">>
    /\ Len(doc.val) = 2
    /\ doc.val[1].kind = "Paragraph"
    /\ doc.val[2].kind = "List" /\ Len(doc.val[2].items) = 1

\* whitespace put before and after an input
Padding == {<<>>, <<SP>>, <<LF, LF>>, <<TAB, LF>>}

\* the positions at which a run of two or more line breaks starts
RunStarts(t) ==
    {i \in 1..Len(t) : t[i] = LF /\ (i = 1 \/ t[i - 1] # LF) /\ BreakRun(t, i) >= 2}

\* t with the run of line breaks that starts at i made n line breaks long
Respace(t, i, n) ==
    SubSeq(t, 1, i - 1) \o [k \in 1..n |-> LF] \o SubSeq(t, i + BreakRun(t, i), Len(t))

\* the parse does not depend on whitespace around the input nor on the length
\* of a run of two or more line breaks
SameParse(t, d) ==
    /\ \A w1 \in Padding, w2 \in Padding : parseDescription(w1 \o t \o w2) = d
    /\ \A i \in RunStarts(t), n \in 2..MaxBreaks : parseDescription(Respace(t, i, n)) = d

\* t is two single-line chunks without '{' and '}'
TwoLineChunks(t) ==
    /\ Len(ChunksOf(t)) = 2
    /\ Len(AllLines(t)) = 2
    /\ \A k \in 1..Len(t) : t[k] \notin {LB, RB}

\* two Paragraphs with one TextSpan each
TwoParagraphs(d) ==
    /\ d.ok
    /\ Len(d.val) = 2
    /\ \A k \in 1..2 :
        /\ d.val[k].kind = "Paragraph"
        /\ Len(d.val[k].elements) = 1
        /\ d.val[k].elements[1].kind = "TextSpan"

\* C13 as stated: the parse result does not depend on whitespace around the
\* input nor on the number (two or more) of line breaks between two chunks,
\* and two brace-free single-line chunks separated by four line breaks parse
\* to two Paragraphs with one TextSpan each.
C13_AsStated ==
    pc \in {"parsed", "failed"} =>
        /\ SameParse(input, doc)
        /\ TwoLineChunks(input) =>
            \A i \in RunStarts(input) : TwoParagraphs(parseDescription(Respace(input, i, 4)))

\* C13: the same, the two chunks of the example being lines that do not
\* begin with "* " (such a line parses to a List).
C13_SameParse ==
    pc \in {"parsed", "failed"} =>
        /\ SameParse(input, doc)
        /\ (TwoLineChunks(input) /\ ItemLines(input) = {}) =>
            \A i \in RunStarts(input) : TwoParagraphs(parseDescription(Respace(input, i, 4)))

C13_Witness ==
    /\ pc = "parsed"
    /\ input = ScenarioD
    /\ RunStarts(input) = {2}
    /\ parseDescription(<<SP>> \o Respace(input, 2, 2) \o <<LF>>) = doc
    /\ doc.val = <<Paragraph(<<TextSpanOf(<<"a">>)>>), Paragraph(<<TextSpanOf(<<"b">>)>>)>>

\* the number of line breaks of a text
RECURSIVE CountBreaks(_)
CountBreaks(t) == IF t = <<>> THEN 0 ELSE (IF Head(t) = LF THEN 1 ELSE 0) + CountBreaks(Tail(t))

\* whether the walk inserts a line-break marker before line k of a chunk
MarkerBefore(lines, k) ==
    LET st == LinesFrom(BlockInit(<<>>), SubSeq(lines, 1, k - 1), 1)
        ln == lines[k]
    IN  IF startsWith(ln, <<"*", SP>>) THEN FALSE
        ELSE IF st.listItems # Null /\ startsWith(ln, <<SP, SP>>)
        THEN Len(st.listItems[1][Len(st.listItems[1])]) > 0 /\ ~startsWith(ln, <<SP, SP, SP>>)
        ELSE st.paragraphElements # Null /\ Len(st.paragraphElements[1]) > 0
             /\ ~startsWith(ln, <<SP>>)

\* the number of markers inserted on the lines of the input
MarkerCount(t) ==
    Cardinality({ck \in (1..Len(ChunksOf(t))) \X (1..Len(t) + 1) :
        /\ ck[2] <= Len(LinesOf(ChunksOf(t)[ck[1]]))
        /\ MarkerBefore(LinesOf(ChunksOf(t)[ck[1]]), ck[2])})

\* the serialized contents of the Paragraphs and of the items of the Lists
ContentsOf(blocks) ==
    Concat([k \in 1..Len(blocks) |->
        IF blocks[k].kind = "Paragraph" THEN joinElements(blocks[k].elements)
        ELSE Concat([i \in 1..Len(blocks[k].items) |-> joinElements(blocks[k].items[i])])])

\* C16: when the parse succeeds, every line-break marker the block parser
\* inserted between the contents of two successive lines is a line break of
\* the serialized Paragraph or item.
C16_BreakPreserved ==
    pc = "parsed" => CountBreaks(ContentsOf(doc.val)) = MarkerCount(input)

\* C20: parseDescription returns a Document for every input without '{'.
C20_BraceFree ==
    (pc \in {"parsed", "failed"} /\ \A k \in 1..Len(input) : input[k] # LB) => doc.ok

-----------------------------------------------------------------------------
(* Instance 4: nodes built with the constructors, and their toString.      *)

TreeAlphabet == {"a", LF, BS, LB, RB}
ThreeLines == <<"a", LF, "b", LF, "c">>
TreeTexts == Texts(TreeAlphabet, MaxContentLen) \cup {ThreeLines}

\* the items a caller makes of a TextSpan holding text t
ItemsOf(t) ==
    { <<>>, <<TextSpanOf(t)>>, <<CommandSpan("PROPER_NAME", <<>>), TextSpanOf(t)>> }

\* the non-empty sequences of at most n elements of S
SeqsOf(S, n) == UNION {[1..k -> S] : k \in 1..n}

InitTree ==
    /\ pc = "start"
    /\ input \in TreeTexts
    /\ span = NoSpan
    /\ line = <<>>
    /\ scan = NoScan
    /\ tree = NoTree
    /\ out = <<>>
    /\ doc = NoDoc
    /\ canon = <<>>
    /\ doc2 = NoDoc
    /\ canon2 = <<>>
    /\ walk = NoWalk
    /\ catalog = values
    /\ found = NoFound

\* span = new TextSpan(input)
NewContent ==
    /\ pc = "start"
    /\ span' = TextSpan(input)
    /\ pc' = IF span'.ok THEN "content" ELSE "rejected"
    /\ UNCHANGED <<input, line, scan, tree, out, doc, canon, doc2, canon2, walk, catalog, found>>

\* tree = new CommandSpan(type, span)
NewCommandSpan ==
    /\ pc = "content"
    /\ \E type \in TypeNames : tree' = CommandSpan(type, span.val)
    /\ pc' = "built"
    /\ UNCHANGED <<input, span, line, scan, out, doc, canon, doc2, canon2, walk, catalog, found>>

\* tree = new List(items)
NewList ==
    /\ pc = "content"
    /\ \E items \in SeqsOf(ItemsOf(span.val), MaxItems) : tree' = List(items)
    /\ pc' = "built"
    /\ UNCHANGED <<input, span, line, scan, out, doc, canon, doc2, canon2, walk, catalog, found>>

\* out = tree.toString()
CallToString ==
    /\ pc = "built"
    /\ out' = IF tree.kind = "CommandSpan" THEN CommandSpan_toString(tree) ELSE List_toString(tree)
    /\ pc' = "printed"
    /\ UNCHANGED <<input, span, line, scan, tree, doc, canon, doc2, canon2, walk, catalog, found>>

NextTree == NewContent \/ NewCommandSpan \/ NewList \/ CallToString

SpecTree == InitTree /\ [][NextTree]_vars

-----------------------------------------------------------------------------
(* Claims about serialization (instance 4).                                *)

\* the first alias of each type
FirstAlias ==
    [t \in TypeNames |->
        CASE t = "EMPHASIS" -> <<"e">>
          [] t = "STRONG_EMPHASIS" -> <<"s">>
          [] t = "PROPER_NAME" -> <<"p">>
          [] t = "CODE" -> <<"c">>
          [] t = "MESSAGE" -> <<"m">>
          [] t = "MESSAGE_PLACEHOLDER" -> <<"m", "p">>
          [] t = "CURLY_BRACE_OPEN" -> <<"c", "b">>
          [] t = "CURLY_BRACE_CLOSED" -> <<"c", "b", "c">>]

\* C9: a CommandSpan prints as '{', the first alias of its type, then, only if
\* the content is not empty, one space and the content, then '}'; the content
\* gets a '\' in front only when it is exactly one of the characters '\', '{',
\* '}', and is printed as it is otherwise.
C9_CommandSpanToString ==
    (pc = "printed" /\ tree.kind = "CommandSpan") =>
        out = <<LB>> \o FirstAlias[tree.type]
              \o (IF tree.text = <<>> THEN <<>>
                  ELSE IF tree.text \in {<<BS>>, <<LB>>, <<RB>>} THEN <<SP, BS>> \o tree.text
                  ELSE <<SP>> \o tree.text)
              \o <<RB>>

C9_Witness ==
    /\ pc = "printed"
    /\ tree = CommandSpan("CURLY_BRACE_OPEN", <<"a", BS, RB>>)
    /\ out = <<LB, "c", "b", SP, "a", BS, RB, RB>>

C9_WitnessEmpty ==
    /\ pc = "printed"
    /\ tree = CommandSpan("PROPER_NAME", <<>>)
    /\ out = <<LB, "p", RB>>

\* the text of item i of a list with every line break indented
IndentedItem(items, i) ==
    (IF i = 1 THEN <<"*", SP>> ELSE <<LF, "*", SP>>) \o indentAll(joinElements(items[i]))

\* C10 as stated: a List prints as a line break, each item as "* " and its
\* joined elements with every internal line break followed by two spaces, the
\* items separated by a line break, and a final line break.
C10_ListToString ==
    (pc = "printed" /\ tree.kind = "List") =>
        out = <<LF>> \o Concat([i \in 1..Len(tree.items) |-> IndentedItem(tree.items, i)]) \o <<LF>>

-----------------------------------------------------------------------------
(* Instance 5: the block parser, one line of the input per step.           *)

\* the lines of the chunk the walk is in, and the line it is at
WalkLines == LinesOf(ChunksOf(input)[walk.c])
WalkLine == WalkLines[walk.l]

InitWalk ==
    /\ pc = "walking"
    /\ input \in ParseInputs
    /\ walk = [c |-> 1, l |-> 1, st |-> BlockInit(<<>>)]
    /\ span = NoSpan
    /\ line = <<>>
    /\ scan = NoScan
    /\ tree = NoTree
    /\ out = <<>>
    /\ doc = NoDoc
    /\ canon = <<>>
    /\ doc2 = NoDoc
    /\ canon2 = <<>>
    /\ catalog = values
    /\ found = NoFound

\* the callback of a line ends with the locals st, or its exception leaves
\* parseDescription
WalkTo(st) ==
    /\ walk' = [walk EXCEPT !.st = st, !.l = @ + 1]
    /\ pc' = IF st.err = NoError THEN "walking" ELSE "thrown"
    /\ doc' = IF st.err = NoError THEN doc ELSE Throw(st.err)
    /\ UNCHANGED <<input, span, line, scan, tree, out, canon, doc2, canon2, catalog, found>>

AtLine == pc = "walking" /\ walk.l <= Len(WalkLines)

\* a line that starts with "* "
WalkItemLine ==
    /\ AtLine
    /\ startsWith(WalkLine, <<"*", SP>>)
    /\ WalkTo(ItemLine(walk.st, WalkLine))

\* a line that starts with two spaces while a list is open
WalkContinuationLine ==
    /\ AtLine
    /\ ~startsWith(WalkLine, <<"*", SP>>)
    /\ walk.st.listItems # Null /\ startsWith(WalkLine, <<SP, SP>>)
    /\ WalkTo(ContinuationLine(walk.st, WalkLine))

\* every other line
WalkParagraphLine ==
    /\ AtLine
    /\ ~startsWith(WalkLine, <<"*", SP>>)
    /\ ~(walk.st.listItems # Null /\ startsWith(WalkLine, <<SP, SP>>))
    /\ WalkTo(ParagraphLine(walk.st, WalkLine))

\* the walk after the two pushes that end a chunk left the locals st: the
\* callback of the next chunk starts with fresh locals, or parseDescription
\* returns, or the exception of a push leaves it
ChunkTo(st) ==
    /\ walk' = IF st.err # NoError \/ walk.c >= Len(ChunksOf(input))
               THEN [walk EXCEPT !.st = st]
               ELSE [c |-> walk.c + 1, l |-> 1, st |-> BlockInit(st.blocks)]
    /\ pc' = IF st.err # NoError THEN "thrown"
             ELSE IF walk.c >= Len(ChunksOf(input)) THEN "done" ELSE "walking"
    /\ doc' = IF st.err # NoError \/ walk.c >= Len(ChunksOf(input)) THEN DescriptionOf(st) ELSE doc
    /\ UNCHANGED <<input, span, line, scan, tree, out, canon, doc2, canon2, catalog, found>>

\* the end of the callback of a chunk
EndOfChunk ==
    /\ pc = "walking"
    /\ walk.l > Len(WalkLines)
    /\ ChunkTo(BlockEnd(walk.st))

NextWalk == WalkItemLine \/ WalkContinuationLine \/ WalkParagraphLine \/ EndOfChunk

SpecWalk == InitWalk /\ [][NextWalk]_vars

-----------------------------------------------------------------------------
(* Claims about the walk of the block parser (instance 5).                 *)

\* which accumulator is open
OpenKind(st) ==
    IF st.paragraphElements # Null /\ st.listItems # Null THEN "both"
    ELSE IF st.paragraphElements # Null THEN "Paragraph"
    ELSE IF st.listItems # Null THEN "List"
    ELSE "none"

\* the block an open accumulator is pushed as
OpenBlock(st) ==
    IF st.paragraphElements # Null
    THEN Paragraph(optimizeElements(st.paragraphElements[1]).val)
    ELSE List(mapOptimize(st.listItems[1], 1, Return(<<>>)).val)

\* the kind of block line k of a chunk belongs to
RECURSIVE LineKind(_, _)
LineKind(lines, k) ==
    IF startsWith(lines[k], <<"*", SP>>) THEN "List"
    ELSE IF k > 1 /\ startsWith(lines[k], <<SP, SP>>) /\ LineKind(lines, k - 1) = "List"
    THEN "List"
    ELSE "Paragraph"

\* the kinds of the blocks of a chunk, in the order of their first lines
RECURSIVE KindsFrom(_, _)
KindsFrom(lines, k) ==
    IF k > Len(lines) THEN <<>>
    ELSE (IF k = 1 \/ LineKind(lines, k) # LineKind(lines, k - 1)
          THEN <<LineKind(lines, k)>> ELSE <<>>) \o KindsFrom(lines, k + 1)

DocKinds(t) == Concat([c \in 1..Len(ChunksOf(t)) |-> KindsFrom(LinesOf(ChunksOf(t)[c]), 1)])

\* a step of the walk that does not throw: blocks grows at its end only, by
\* the accumulator that was open, when the other one opens or the chunk ends
WalkStep ==
    (pc = "walking" /\ pc' # "thrown") =>
        /\ walk.l <= Len(WalkLines) =>
            /\ OpenKind(walk'.st) \in {"Paragraph", "List"}
            /\ walk'.st.blocks =
                 IF OpenKind(walk.st) \in {"none", OpenKind(walk'.st)} THEN walk.st.blocks
                 ELSE Append(walk.st.blocks, OpenBlock(walk.st))
        /\ walk.l > Len(WalkLines) =>
            /\ OpenKind(walk'.st) = "none"
            /\ walk'.st.blocks =
                 IF OpenKind(walk.st) = "none" THEN walk.st.blocks
                 ELSE Append(walk.st.blocks, OpenBlock(walk.st))

\* C15: during the walk at most one accumulator is open; a line that opens
\* one flushes the other to the blocks, the end of a chunk closes both, and
\* the blocks come in the order of their first lines.
C15_Accumulators ==
    /\ [](pc \in {"walking", "done"} => OpenKind(walk.st) # "both")
    /\ [][WalkStep]_vars
    /\ [](pc = "done" => [k \in 1..Len(doc.val) |-> doc.val[k].kind] = DocKinds(input))

\* "a\n* c" at its end: the Paragraph was flushed when the List opened
C15_Witness ==
    /\ pc = "walking"
    /\ input = <<"a", LF, "*", SP, "c">>
    /\ walk.l = 3
    /\ walk.st.blocks = <<Paragraph(<<TextSpanOf(<<"a">>)>>)>>
    /\ OpenKind(walk.st) = "List"

C15_WitnessDone ==
    /\ pc = "done"
    /\ input = <<LF, "*", SP, LF, "a">>
    /\ OpenKind(walk.st) = "none"
    /\ DocKinds(input) = <<"List", "Paragraph">>

\* the steps of the walk that push a block without throwing
Flushes == pc = "walking" /\ pc' # "thrown" /\ Len(walk'.st.blocks) = Len(walk.st.blocks) + 1

\* the block such a step pushes
Flushed == walk'.st.blocks[Len(walk'.st.blocks)]

\* the calls of optimizeElements in such a step: <<elements, optimizedElements>>
OptimizerCalls ==
    IF Flushed.kind = "Paragraph"
    THEN {<<walk.st.paragraphElements[1], Flushed.elements>>}
    ELSE {<<walk.st.listItems[1][i], Flushed.items[i]>> : i \in 1..Len(Flushed.items)}

IsCommandSpan(e) == e.kind = "CommandSpan"

\* the texts of the TextSpans of s, joined, one text per stretch between
\* CommandSpans
RECURSIVE StretchesFrom(_, _, _)
StretchesFrom(s, k, acc) ==
    IF k > Len(s) THEN acc
    ELSE IF IsCommandSpan(s[k]) THEN StretchesFrom(s, k + 1, Append(acc, <<>>))
    ELSE StretchesFrom(s, k + 1, [acc EXCEPT ![Len(acc)] = @ \o s[k].text])

Stretches(s) == StretchesFrom(s, 1, << <<>> >>)

\* a text without its whitespace characters
RECURSIVE NonWhite(_)
NonWhite(t) ==
    IF t = <<>> THEN <<>>
    ELSE (IF IsWhitespace(Head(t)) THEN <<>> ELSE <<Head(t)>>) \o NonWhite(Tail(t))

\* what C17 says of one call: elements in, optimized out
Optimized(elements, optimized) ==
    /\ \A k \in 1..Len(optimized) :
            optimized[k].kind = "TextSpan" => optimized[k].text # <<>>
    /\ \A k \in 1..(Len(optimized) - 1) :
            ~(optimized[k].kind = "TextSpan" /\ optimized[k + 1].kind = "TextSpan")
    /\ SelectSeq(optimized, IsCommandSpan) = SelectSeq(elements, IsCommandSpan)
    /\ Len(Stretches(optimized)) = Len(Stretches(elements))
    /\ \A n \in 1..Len(Stretches(elements)) :
            NonWhite(Stretches(optimized)[n]) = NonWhite(Stretches(elements)[n])

\* C17: for every inline sequence the block parser hands to optimizeElements,
\* the output has no empty TextSpan and no two adjacent TextSpans, its
\* CommandSpans are those of the input in the same order, and the text
\* between two CommandSpans comes from the TextSpans between them.
C17_Optimized ==
    [][ Flushes => \A call \in OptimizerCalls : Optimized(call[1], call[2]) ]_vars

\* the Paragraph of "a\nc{c a}a\nc": two merges, one on each side of the command
C17_Witness ==
    /\ pc = "done"
    /\ input = AroundCommand
    /\ doc.val = <<Paragraph(<<TextSpanOf(<<"a", LF, "c">>),
                               CommandSpan("CODE", <<"a">>),
                               TextSpanOf(<<"a", LF, "c">>)>>)>>

\* C18: the output of optimizeElements is equivalent to its input: joined,
\* the output serializes to the same text as the input, a merged TextSpan
\* being the plain concatenation of the TextSpans it replaces.
C18_SameSerialization ==
    [][ Flushes => \A call \in OptimizerCalls :
                        joinElements(call[2]) = joinElements(call[1]) ]_vars

-----------------------------------------------------------------------------
(* Instance 6: the catalog, under lookups, parses and serializations.      *)

\* the strings looked up: the aliases, the names and others
CommandStrings == Aliases \cup Texts({"c", "b", "o", "m"}, MaxTokenLen)
NameStrings == TypeNames \cup {"", "e", "code", "CODE ", "null", "values"}

CatalogInputs == {ScenarioA, ScenarioB, ScenarioC, ScenarioE, LeadingBrace}

InitCatalog ==
    /\ pc = "start"
    /\ input \in CatalogInputs
    /\ catalog = values
    /\ found = NoFound
    /\ span = NoSpan
    /\ line = <<>>
    /\ scan = NoScan
    /\ tree = NoTree
    /\ out = <<>>
    /\ doc = NoDoc
    /\ canon = <<>>
    /\ doc2 = NoDoc
    /\ canon2 = <<>>
    /\ walk = NoWalk

\* found = Type.fromCommand(command)
CallFromCommand ==
    /\ \E command \in CommandStrings :
        found' = [called |-> "fromCommand", name |-> "", command |-> command,
                  val |-> fromCommand(command)]
    /\ UNCHANGED <<pc, input, span, line, scan, tree, out, doc, canon, doc2, canon2, walk, catalog>>

\* found = Type.from(name)
CallFrom ==
    /\ \E name \in NameStrings :
        found' = [called |-> "from", name |-> name, command |-> <<>>, val |-> from(name)]
    /\ UNCHANGED <<pc, input, span, line, scan, tree, out, doc, canon, doc2, canon2, walk, catalog>>

NextCatalog == CallFromCommand \/ CallFrom \/ Parse \/ Serialize

SpecCatalog == InitCatalog /\ [][NextCatalog]_vars

-----------------------------------------------------------------------------
(* Claims about the catalog (instance 6).                                  *)

\* the entries that list alias a, the entries named n
EntriesWithAlias(a) == {k \in 1..Len(values) : arrayIncludes(values[k].commands, a)}
EntriesNamed(n) == {k \in 1..Len(values) : values[k].name = n}

\* C19: alias lookup of an alias of an entry and name lookup of its name
\* return that entry, no alias and no name belongs to two entries, lookup of
\* any other string returns null, and after any sequence of lookups, parses
\* and serializations the catalog holds its eight entries in their order.
C19_Catalog ==
    /\ catalog = values
    /\ Len(catalog) = 8
    /\ \A a \in CommandStrings : Cardinality(EntriesWithAlias(a)) <= 1
    /\ \A n \in NameStrings : Cardinality(EntriesNamed(n)) <= 1
    /\ \A k \in 1..Len(values) :
        /\ Len(values[k].commands) >= 1
        /\ \A j \in 1..Len(values[k].commands) : values[k].commands[j] \in CommandStrings
        /\ values[k].name \in NameStrings
    /\ found.called = "fromCommand" =>
        /\ \A k \in EntriesWithAlias(found.command) : found.val = values[k].name
        /\ EntriesWithAlias(found.command) = {} => found.val = "null"
    /\ found.called = "from" =>
        /\ \A k \in EntriesNamed(found.name) : found.val = values[k].name
        /\ EntriesNamed(found.name) = {} => found.val = "null"

\* the second alias of an entry, looked up after a parse and a serialization
C19_Witness ==
    /\ pc = "serialized"
    /\ found = [called |-> "fromCommand", name |-> "", command |-> <<"c", "b", "o">>,
                val |-> "CURLY_BRACE_OPEN"]

C19_WitnessName ==
    /\ pc = "parsed"
    /\ found = [called |-> "from", name |-> "MESSAGE_PLACEHOLDER", command |-> <<>>,
                val |-> "MESSAGE_PLACEHOLDER"]

C19_WitnessNull ==
    /\ found.called = "from" /\ found.name = "e" /\ found.val = "null"

=============================================================================
